---- MODULE Spec2Model ----
(***************************************************************************)
(* AutoFlow invoice approval workflow.                                     *)
(*                                                                         *)
(* Part 1: the workflow engine (src/src/utils/workflowEngine.js):          *)
(*         getExpectedRole and processAction as operators, applied by the  *)
(*         action ProcessActionCall to an in-memory invoice aggregate.     *)
(* Part 2: the approve/reject request of the controllers, split at its     *)
(*         await points (load, pre-save guard read, write), running        *)
(*         concurrently against one stored invoice document, under either  *)
(*         revision of the Invoice model's pre-save guard.                 *)
(* Part 3: the identifier generator (src/src/utils/invoiceIdGenerator.js): *)
(*         generateInvoiceId, getCurrentSeq and setSeq on the counters.    *)
(* Part 4: createInvoice of the controllers, in both revisions, with the   *)
(*         upload directory and the invoices collection.                   *)
(* Part 5: the audit log: logAction, AuditLog.createLog and the hooks of   *)
(*         the AuditLog model.                                             *)
(***************************************************************************)
EXTENDS Bags, FiniteSets, Integers, Sequences, TLC

\* ------------------------------------------------------------------ bounds
\* Largest value of the logical clock that stamps history entries.
MaxNow == 1
\* Longest approvalHistory of an invoice handed to processAction as an input.
MaxHist == 1
\* Number of approve/reject requests that can be in flight at once.
MaxConcurrent == 2
\* Number of approve/reject requests received in one run.
MaxRequests == 3
MaxCallers == 2
MaxCalls == 3
MaxLog == 2

\* ------------------------------------------------------------------ values
NULL == "null"          \* JavaScript null
UNDEF == "undefined"    \* JavaScript undefined (a parameter that was not passed)
EMPTY == ""             \* the empty string (falsy)

STATUSES == {"PENDING", "APPROVED", "REJECTED"}
APPROVAL_ACTIONS == {"APPROVED", "REJECTED"}
ROLES == {"admin", "employee", "manager", "finance"}

\* User ids of the model; u1 and u2 are interchangeable.
Ids == {"u1", "u2"}

\* An argument that is missing altogether (!invoice, !user).
NoInvoice == [missing |-> TRUE]
NoUser == [missing |-> TRUE]

\* The users a caller can pass: none, or { id, role } with either possibly unset.
Users == {NoUser} \cup [id : Ids \cup {UNDEF}, role : ROLES \cup {UNDEF}]
\* The actions a caller can pass: the two valid ones and an invalid one.
Actions == {"APPROVE", "REJECT", "DELETE"}
\* The comments a caller can pass.
Comments == {UNDEF, EMPTY, "bad vendor"}

\* String.prototype.toUpperCase on the role names.
toUpperCase(s) ==
  CASE s = "manager" -> "MANAGER"
    [] s = "finance" -> "FINANCE"
    [] s = "admin" -> "ADMIN"
    [] s = "employee" -> "EMPLOYEE"
    [] OTHER -> s

\* JavaScript truthiness of the string-like values of the model.
Falsy(v) == v \in {NULL, UNDEF, EMPTY}

\* `comment || null`
OrNull(v) == IF Falsy(v) THEN NULL ELSE v

Last(s) == s[Len(s)]

IsPrefix(s, t) ==
  /\ Len(s) <= Len(t)
  /\ \A i \in 1..Len(s) : s[i] = t[i]

\* Variant: only an entry recorded with the role manager opens the finance stage.
getExpectedRole_ManagerOnly(invoice) ==
  IF invoice.status # "PENDING" THEN NULL
  ELSE IF Len(invoice.approvalHistory) = 0 THEN "manager"
  ELSE LET last == Last(invoice.approvalHistory) IN
    IF last.action = "APPROVED" /\ last.role = "manager"
    THEN "finance"
    ELSE NULL

\* ------------------------------------------------------------------ engine
\* getExpectedRole(invoice): the role allowed to act next, or null.
getExpectedRole(invoice) ==
  IF invoice.status # "PENDING" THEN NULL
  ELSE IF Len(invoice.approvalHistory) = 0 THEN "manager"
  ELSE LET last == Last(invoice.approvalHistory) IN
    IF last.action = "APPROVED" /\ (last.role = "manager" \/ last.role = "admin")
    THEN "finance"
    ELSE NULL

\* A thrown Error: the kind of failure, the value its message carries
\* (the status of a finalized invoice, the upper-cased expected role), and the
\* invoice as the call leaves it.
Throw(kind, detail, invoice) ==
  [err |-> kind, detail |-> detail, invoice |-> invoice]

Return(invoice) ==
  [err |-> "OK", detail |-> NULL, invoice |-> invoice]

\* The history entry processAction builds.
historyEntry(user, action, comment, t) ==
  [action |-> IF action = "APPROVE" THEN "APPROVED" ELSE "REJECTED",
   by |-> user.id,
   role |-> user.role,
   timestamp |-> t,
   comment |-> OrNull(comment)]

\* `invoice.status === 'APPROVED' || invoice.status === 'REJECTED'`
isFinalized_ApprovedOnly(invoice) ==
  invoice.status = "APPROVED"

isFinalized(invoice) ==
  invoice.status = "APPROVED" \/ invoice.status = "REJECTED"

\* Array.prototype.push on approvalHistory.
push_Unshift(history, entry) ==
  <<entry>> \o history

push(history, entry) ==
  Append(history, entry)

\* An id comparison that never matches (ObjectIds compared without toString()).
SoDViolation_NoToString(invoice, user) ==
  FALSE

\* A check that stops employees only, letting approvers act on their own invoices.
SoDViolation_EmployeesOnly(invoice, user) ==
  invoice.submittedBy = user.id /\ user.role = "employee"

\* The segregation-of-duties check of processAction.
SoDViolation(invoice, user) ==
  invoice.submittedBy = user.id /\ user.role # "admin"

\* Variant: only the expected role itself passes the role check (no admin override).
isAllowed_ExactRole(user, expectedRole) ==
  user.role = expectedRole
\* A role check that lets any approver role through at any stage.
isAllowed_AnyApprover(user, expectedRole) ==
  user.role \in {"manager", "finance", "admin"}

\* The role check of processAction.
isAllowed(user, expectedRole) ==
  user.role = expectedRole \/ user.role = "admin"

\* A transition whose final approval forgets to set the status.
Transition_ApproveKeepsPending(pushed, action, effectiveRole) ==
  IF action = "REJECT"
  THEN Return([pushed EXCEPT !.status = "REJECTED", !.currentApprover = NULL])
  ELSE IF effectiveRole = "manager" \/ effectiveRole = "finance"
  THEN Return([pushed EXCEPT !.status = "PENDING", !.currentApprover = NULL])
  ELSE Throw("UnhandledState", effectiveRole, pushed)
\* A transition that finalises on the first approval, whatever the stage.
Transition_SkipFinance(pushed, action, effectiveRole) ==
  IF action = "REJECT"
  THEN Return([pushed EXCEPT !.status = "REJECTED", !.currentApprover = NULL])
  ELSE Return([pushed EXCEPT !.status = "APPROVED", !.currentApprover = NULL])

\* A transition whose REJECT forgets to set the status.
Transition_RejectKeepsPending(pushed, action, effectiveRole) ==
  IF action = "REJECT"
  THEN Return([pushed EXCEPT !.currentApprover = NULL])
  ELSE IF effectiveRole = "manager"
  THEN Return([pushed EXCEPT !.status = "PENDING", !.currentApprover = NULL])
  ELSE IF effectiveRole = "finance"
  THEN Return([pushed EXCEPT !.status = "APPROVED", !.currentApprover = NULL])
  ELSE Throw("UnhandledState", effectiveRole, pushed)

\* The state transition of processAction, after the history entry was pushed.
Transition(pushed, action, effectiveRole) ==
  IF action = "REJECT"
  THEN Return([pushed EXCEPT !.status = "REJECTED", !.currentApprover = NULL])
  ELSE IF effectiveRole = "manager"
  THEN Return([pushed EXCEPT !.status = "PENDING", !.currentApprover = NULL])
  ELSE IF effectiveRole = "finance"
  THEN Return([pushed EXCEPT !.status = "APPROVED", !.currentApprover = NULL])
  ELSE Throw("UnhandledState", effectiveRole, pushed)

\* Variant: the transition is decided by the actual role of the user.
effectiveRole_Actual(user, expectedRole) == user.role

\* `user.role === 'admin' ? expectedRole : user.role`
effectiveRole(user, expectedRole) ==
  IF user.role = "admin" THEN expectedRole ELSE user.role

\* processAction with the history entry pushed ahead of the role validation.
processAction_PushBeforeRoleCheck(invoice, user, action, comment, t) ==
  IF invoice = NoInvoice THEN Throw("InvoiceRequired", NULL, invoice)
  ELSE IF user = NoUser \/ Falsy(user.id) \/ Falsy(user.role)
  THEN Throw("UserContextRequired", NULL, invoice)
  ELSE IF action \notin {"APPROVE", "REJECT"}
  THEN Throw("InvalidAction", NULL, invoice)
  ELSE IF isFinalized(invoice)
  THEN Throw("AlreadyFinalized", invoice.status, invoice)
  ELSE IF SoDViolation(invoice, user)
  THEN Throw("ConflictOfInterest", NULL, invoice)
  ELSE LET expectedRole == getExpectedRole(invoice)
           pushed == [invoice EXCEPT !.approvalHistory =
                        push(@, historyEntry(user, action, comment, t))]
       IN
    IF Falsy(expectedRole)
    THEN Throw("NoActionExpected", NULL, invoice)
    ELSE IF ~isAllowed(user, expectedRole)
    THEN Throw("WrongStage", toUpperCase(expectedRole), pushed)
    ELSE Transition(pushed, action, effectiveRole(user, expectedRole))
\* processAction with the role validation ahead of the segregation-of-duties check.
processAction_RoleBeforeSoD(invoice, user, action, comment, t) ==
  IF invoice = NoInvoice THEN Throw("InvoiceRequired", NULL, invoice)
  ELSE IF user = NoUser \/ Falsy(user.id) \/ Falsy(user.role)
  THEN Throw("UserContextRequired", NULL, invoice)
  ELSE IF action \notin {"APPROVE", "REJECT"}
  THEN Throw("InvalidAction", NULL, invoice)
  ELSE IF isFinalized(invoice)
  THEN Throw("AlreadyFinalized", invoice.status, invoice)
  ELSE LET expectedRole == getExpectedRole(invoice) IN
    IF Falsy(expectedRole)
    THEN Throw("NoActionExpected", NULL, invoice)
    ELSE IF ~isAllowed(user, expectedRole)
    THEN Throw("WrongStage", toUpperCase(expectedRole), invoice)
    ELSE IF SoDViolation(invoice, user)
    THEN Throw("ConflictOfInterest", NULL, invoice)
    ELSE LET effRole == effectiveRole(user, expectedRole)
             pushed == [invoice EXCEPT !.approvalHistory =
                          push(@, historyEntry(user, action, comment, t))]
         IN Transition(pushed, action, effRole)

\* processAction({ invoice, user, action, comment }) at time t.
processAction(invoice, user, action, comment, t) ==
  IF invoice = NoInvoice THEN Throw("InvoiceRequired", NULL, invoice)
  ELSE IF user = NoUser \/ Falsy(user.id) \/ Falsy(user.role)
  THEN Throw("UserContextRequired", NULL, invoice)
  ELSE IF action \notin {"APPROVE", "REJECT"}
  THEN Throw("InvalidAction", NULL, invoice)
  ELSE IF isFinalized(invoice)
  THEN Throw("AlreadyFinalized", invoice.status, invoice)
  ELSE IF SoDViolation(invoice, user)
  THEN Throw("ConflictOfInterest", NULL, invoice)
  ELSE LET expectedRole == getExpectedRole(invoice) IN
    IF Falsy(expectedRole)
    THEN Throw("NoActionExpected", NULL, invoice)
    ELSE IF ~isAllowed(user, expectedRole)
    THEN Throw("WrongStage", toUpperCase(expectedRole), invoice)
    ELSE LET effRole == effectiveRole(user, expectedRole)
             pushed == [invoice EXCEPT !.approvalHistory =
                          push(@, historyEntry(user, action, comment, t))]
         IN Transition(pushed, action, effRole)

\* ------------------------------------------------------------------ engine, second revision
\* getExpectedRole of src/backend/src/utils/emailService.js.
getExpectedRoleRev2(invoice) ==
  IF invoice.status # "PENDING" THEN NULL
  ELSE IF Len(invoice.approvalHistory) = 0 THEN "manager"
  ELSE LET last == Last(invoice.approvalHistory) IN
    IF last.action = "APPROVED" /\ last.role = "manager"
    THEN "finance"
    ELSE NULL

\* processAction of src/backend/src/utils/emailService.js: no check of the
\* submitter, and the history entry records the effective role.
processActionRev2(invoice, user, action, comment, t) ==
  IF invoice = NoInvoice THEN Throw("InvoiceRequired", NULL, invoice)
  ELSE IF user = NoUser \/ Falsy(user.id) \/ Falsy(user.role)
  THEN Throw("UserContextRequired", NULL, invoice)
  ELSE IF action \notin {"APPROVE", "REJECT"}
  THEN Throw("InvalidAction", NULL, invoice)
  ELSE IF isFinalized(invoice)
  THEN Throw("AlreadyFinalized", NULL, invoice)
  ELSE LET expectedRole == getExpectedRoleRev2(invoice) IN
    IF Falsy(expectedRole)
    THEN Throw("NoActionExpected", NULL, invoice)
    ELSE IF user.role # expectedRole /\ user.role # "admin"
    THEN Throw("WrongStage", expectedRole, invoice)
    ELSE LET effRole == IF user.role = "admin" THEN expectedRole ELSE user.role
             entry == [historyEntry(user, action, comment, t) EXCEPT !.role = effRole]
             pushed == [invoice EXCEPT !.approvalHistory = push(@, entry)]
         IN Transition(pushed, action, effRole)

\* What the caller sees of a call of the second revision: whether it failed,
\* and the status and the next expected role it left.
Outcome2(res) ==
  IF res.err = "OK"
  THEN [err |-> "OK", status |-> res.invoice.status,
        next |-> getExpectedRoleRev2(res.invoice)]
  ELSE [err |-> res.err, status |-> NULL, next |-> NULL]
\* ------------------------------------------------------------------ identifiers
\* JavaScript values of the options object, tagged with their type.
Undefined == [t |-> "undefined"]
Num(n) == [t |-> "number", n |-> n, integer |-> TRUE]
Frac(n) == [t |-> "number", n |-> n, integer |-> FALSE]   \* n + 0.5
Str(chars) == [t |-> "string", s |-> chars]
Fn(name) == [t |-> "function", f |-> name]

typeof(v) == v.t

\* Number.isInteger(v)
isInteger(v) == v.t = "number" /\ v.integer

\* Truthiness of an option value: undefined, 0 and '' are falsy.
Truthy(v) ==
  CASE v.t = "undefined" -> FALSE
    [] v.t = "number" -> v.n # 0 \/ ~v.integer
    [] v.t = "string" -> v.s # <<>>
    [] OTHER -> TRUE

DEFAULT_PADDING == 6
MinPadding == 1
MaxPadding == 12
RandomRange == 1000000
CurrentYear == 2026

\* Strings are sequences of one-character strings.
Chars == <<"0", "1", "2", "3", "4", "5", "6", "7", "8", "9">>

RECURSIVE String(_)
\* String(n) for a non-negative integer n: its decimal digits.
String(n) ==
  IF n < 10 THEN <<Chars[n + 1]>>
  ELSE String(n \div 10) \o <<Chars[(n % 10) + 1]>>

\* Variant: the padding is put on the right.
padStart_PadEnd(s, targetLength, ch) ==
  IF Len(s) >= targetLength THEN s
  ELSE s \o [i \in 1..(targetLength - Len(s)) |-> ch]

\* s.padStart(targetLength, ch): pads on the left, never truncates.
padStart(s, targetLength, ch) ==
  IF Len(s) >= targetLength THEN s
  ELSE [i \in 1..(targetLength - Len(s)) |-> ch] \o s

\* (year) => `INV-${year}`
DEFAULT_PREFIX(year) == <<"I", "N", "V", "-">> \o String(year)

\* Variant: the lower end of the padding range is not checked.
validateOptions_UpperOnly(options) ==
  IF /\ options.padding # Undefined
     /\ \/ ~isInteger(options.padding)
        \/ options.padding.n > MaxPadding
  THEN "RangeError"
  ELSE IF /\ options.prefix # Undefined
          /\ typeof(options.prefix) # "string"
          /\ typeof(options.prefix) # "function"
  THEN "TypeError"
  ELSE "OK"

\* validateOptions: the error it throws, or "OK".
validateOptions(options) ==
  IF /\ options.padding # Undefined
     /\ \/ ~isInteger(options.padding)
        \/ options.padding.n < MinPadding
        \/ options.padding.n > MaxPadding
  THEN "RangeError"
  ELSE IF /\ options.prefix # Undefined
          /\ typeof(options.prefix) # "string"
          /\ typeof(options.prefix) # "function"
  THEN "TypeError"
  ELSE "OK"

\* `options.year || new Date().getFullYear()`
yearOf(options) == IF Truthy(options.year) THEN options.year.n ELSE CurrentYear

\* `options.padding || DEFAULT_PADDING`
paddingOf(options) == IF Truthy(options.padding) THEN options.padding.n ELSE DEFAULT_PADDING

\* `typeof prefixFn === 'function' ? prefixFn(year) : prefixFn` with
\* prefixFn = options.prefix || DEFAULT_PREFIX; a caller's function is
\* year => `P${year}`.
prefixOf(options) ==
  IF ~Truthy(options.prefix) THEN DEFAULT_PREFIX(yearOf(options))
  ELSE IF typeof(options.prefix) = "function" THEN <<"P">> \o String(yearOf(options))
  ELSE options.prefix.s

\* `${prefix}-${String(seq).padStart(padding, '0')}`
normalId(prefix, seq, padding) ==
  prefix \o <<"-">> \o padStart(String(seq), padding, "0")

\* `${prefix}-${ts}-${String(rnd).padStart(padding, '0')}`
fallbackId(prefix, ts, rnd, padding) ==
  prefix \o <<"-">> \o String(ts) \o <<"-">> \o padStart(String(rnd), padding, "0")

\* The resource of an audit payload: none, or { type, id }.
NoResource == [missing |-> TRUE]

Resource(id) ==
  [type |-> Str(<<"I", "n", "v", "o", "i", "c", "e">>), id |-> id]

\* The invoiceId of the stored invoice the approve/reject requests act on.
StoredInvoiceId == normalId(DEFAULT_PREFIX(CurrentYear), 1, DEFAULT_PADDING)

\* ------------------------------------------------------------------ state
VARIABLES
  invoice,   \* the in-memory invoice aggregate the engine is applied to
  before,    \* the aggregate as it was when the current call was made
  call,      \* the processAction call just made (arguments and outcome, and the
             \* outcome of the same call in the second revision), or NoCall
  prev,      \* the call before it, if it succeeded: its arguments and its stage; or NoCall
  now,       \* logical clock behind `new Date()`
  stored,    \* the invoice document as the database holds it
  storedStage, \* for each stored history entry, the stage (expected role) it was made for
  req,       \* the approve/reject requests in flight, one per request slot
  started,   \* number of requests received so far
  guardRev,  \* the revision of the Invoice model (of its pre-save guard) in use
  counters,  \* the counters collection: year |-> seq, for the years that have a record
  connected, \* mongoose.connection.readyState === 1
  gen,       \* the generateInvoiceId calls in flight, one per caller
  ret,       \* the outcome of the call that has just finished, or NoRet
  issued,    \* the bag of the identifiers returned so far
  seqOp,     \* the getCurrentSeq or setSeq call that has just finished, or NoCall
  invoices,  \* the invoices collection: the persisted invoices
  files,     \* the upload directory: path |-> content (the request that uploaded it)
  creq,      \* the createInvoice requests, one per caller
  pendingAudit, \* the payloads passed to logAction whose write has not settled
  auditLog,  \* the auditlogs collection, in the order of insertion
  auditOp,   \* the last operation tried on an existing audit record, and its outcome
  logPromise \* the promise of the logAction call that settled last: its state

engineVars == <<invoice, before, call, prev, now>>
storeVars == <<stored, storedStage, req, started, guardRev>>
allocVars == <<counters, connected, gen, ret, issued, seqOp>>
createVars == <<invoices, files, creq>>
auditVars == <<pendingAudit, auditLog, auditOp, logPromise>>
vars == <<invoice, before, call, prev, now, stored, storedStage, req, started, guardRev,
          counters, connected, gen, ret, issued, seqOp, invoices, files, creq,
          pendingAudit, auditLog, auditOp, logPromise>>

NoCall == [missing |-> TRUE]

\* A new invoice as createInvoice persists it.
NewInvoice(submitter) ==
  [status |-> "PENDING",
   approvalHistory |-> <<>>,
   submittedBy |-> submitter,
   currentApprover |-> NULL,
   rejectionReason |-> NULL]

\* History entries of the invoices drawn as inputs (the engine reads only the
\* action and the role of an entry).
InputEntries ==
  [action : APPROVAL_ACTIONS, by : {"u2"}, role : ROLES, timestamp : {0}, comment : {NULL}]

InputHistories ==
  UNION {[1..n -> InputEntries] : n \in 0..MaxHist}

\* Any invoice document the schema admits (within the bounds).
InputInvoices ==
  [status : STATUSES,
   approvalHistory : InputHistories,
   submittedBy : Ids,
   currentApprover : {NULL, "u2"},
   rejectionReason : {NULL}]

\* The slots of concurrently running requests.
Requests == 1..MaxConcurrent

\* The concurrent callers of generateInvoiceId.
Callers == 1..MaxCallers

\* A caller with no call in flight.
IdleGen == [pc |-> "idle"]

\* No call has just finished.
NoRet == [missing |-> TRUE]

\* A request slot with no request in it.
IdleReq == [pc |-> "idle"]

InitRest ==
  /\ call = NoCall
  /\ prev = NoCall
  /\ now = 0
  /\ stored = NewInvoice("u1")
  /\ storedStage = <<>>
  /\ req = [r \in Requests |-> IdleReq]
  /\ started = 0
  /\ counters = <<>>
  /\ connected = TRUE
  /\ gen = [c \in Callers |-> IdleGen]
  /\ ret = NoRet
  /\ issued = EmptyBag
  /\ seqOp = NoCall
  /\ invoices = {}
  /\ files = <<>>
  /\ creq = [c \in Callers |-> IdleGen]
  /\ pendingAudit = <<>>
  /\ auditLog = <<>>
  /\ auditOp = NoCall
  /\ logPromise = "none"

\* The engine starts on a freshly created invoice.
Init ==
  /\ invoice \in {NewInvoice(s) : s \in Ids}
  /\ before = invoice
  /\ guardRev = "src"
  /\ InitRest

\* The engine is handed an arbitrary invoice document.
InitFn ==
  /\ invoice \in InputInvoices
  /\ before = invoice
  /\ guardRev = "src"
  /\ InitRest

\* The arguments of a call.
Args(hasInvoice, user, action, comment) ==
  [hasInvoice |-> hasInvoice, user |-> user, action |-> action, comment |-> comment]

\* The caller invokes processAction on the aggregate (or with the invoice missing).
ProcessActionCall ==
  /\ call = NoCall
  /\ \E arg \in {invoice, NoInvoice}, user \in Users, action \in Actions,
        comment \in Comments :
       LET res == processAction(arg, user, action, comment, now) IN
       /\ before' = invoice
       /\ invoice' = IF arg = NoInvoice THEN invoice ELSE res.invoice
       /\ call' = [args |-> Args(arg # NoInvoice, user, action, comment),
                   err |-> res.err, detail |-> res.detail,
                   rev2 |-> Outcome2(processActionRev2(arg, user, action, comment, now))]
  /\ UNCHANGED <<prev, now>>
  /\ UNCHANGED <<storeVars, allocVars, createVars, auditVars>>

\* The caller has seen the outcome and goes on to its next call.
CallerContinues ==
  /\ call # NoCall
  /\ prev' = IF call.err = "OK"
             THEN [args |-> call.args, stage |-> getExpectedRole(before)]
             ELSE NoCall
  /\ call' = NoCall
  /\ before' = invoice
  /\ UNCHANGED <<invoice, now>>
  /\ UNCHANGED <<storeVars, allocVars, createVars, auditVars>>

\* Time passes between calls.
Tick ==
  /\ call = NoCall
  /\ ret = NoRet
  /\ now < MaxNow
  /\ now' = now + 1
  /\ UNCHANGED <<invoice, before, call, prev>>
  /\ UNCHANGED <<storeVars, allocVars, createVars, auditVars>>

NextEngine == ProcessActionCall \/ CallerContinues \/ Tick

SpecEngine == Init /\ [][NextEngine]_vars

SpecFn == InitFn /\ [][NextEngine]_vars

\* ------------------------------------------------------------------ requests
\* The authenticated users that send requests (protect sets req.user).
ReqUsers == [id : Ids, role : ROLES]

\* The handlers and, for updateInvoiceStatus, the status of the request body.
ReqKinds ==
  {[handler |-> "approveInvoice", status |-> UNDEF],
   [handler |-> "rejectInvoice", status |-> UNDEF]}
  \cup [handler : {"updateInvoiceStatus"}, status : {"APPROVED", "REJECTED", "PENDING", UNDEF}]

\* The comment (or reason) of the request body.
ReqComments == {UNDEF, "bad vendor"}

\* roleGuard('manager', 'finance', 'admin') of the routes.
roleGuard(user) == user.role \in {"manager", "finance", "admin"}

\* The action a handler passes to processAction.
actionOf(kind) ==
  IF kind.handler = "approveInvoice" THEN "APPROVE"
  ELSE IF kind.handler = "rejectInvoice" THEN "REJECT"
  ELSE IF kind.status = "APPROVED" THEN "APPROVE" ELSE "REJECT"

\* updateInvoiceStatus: `if (status === 'REJECTED' && reason) invoice.rejectionReason = reason`.
withReason(doc, kind, reason) ==
  IF kind.handler = "updateInvoiceStatus" /\ kind.status = "REJECTED" /\ ~Falsy(reason)
  THEN [doc EXCEPT !.rejectionReason = reason]
  ELSE doc

Failed(kind) == [pc |-> "failed", err |-> kind]

\* The pre-save hook of the Invoice model: it throws when the status it reads
\* from the database is a final one.
preSaveGuardThrows(inDb) == inDb.status \in {"APPROVED", "REJECTED"}

\* The pre-save hook of the other revision of the model: it throws when the
\* status of the document being saved (which is modified) is a final one.
preSaveGuardThrowsOnDoc(doc) == doc.status \in {"APPROVED", "REJECTED"}

\* The revisions of the Invoice model.
GuardRevisions == {"src", "part_007"}

\* Variant: save() resolves without the update reaching the database.
saveUpdate_Lost(inDb, loaded, doc) == inDb

\* What invoice.save() sends for a loaded document that was modified: the
\* entries pushed onto approvalHistory are appended to the stored array and the
\* scalar paths whose value changed are set; the filter is the _id alone.
saveUpdate(inDb, loaded, doc) ==
  [inDb EXCEPT
     !.approvalHistory = @ \o SubSeq(doc.approvalHistory,
                                     Len(loaded.approvalHistory) + 1,
                                     Len(doc.approvalHistory)),
     !.status = IF doc.status # loaded.status THEN doc.status ELSE @,
     !.currentApprover =
        IF doc.currentApprover # loaded.currentApprover THEN doc.currentApprover ELSE @,
     !.rejectionReason =
        IF doc.rejectionReason # loaded.rejectionReason THEN doc.rejectionReason ELSE @]

\* A request arrives: the route's roleGuard, the handler's load of the invoice,
\* processAction on the loaded copy, and the call of save(), whose pre-save
\* hook starts its read.
ReqLoad(r) ==
  /\ req[r].pc \in {"idle", "done", "failed"}
  /\ started < MaxRequests
  /\ started' = started + 1
  /\ \E user \in ReqUsers, kind \in ReqKinds, comment \in ReqComments :
       LET res == processAction(stored, user, actionOf(kind), comment, now) IN
       req' = [req EXCEPT ![r] =
                 IF ~roleGuard(user) THEN Failed("AccessDenied")
                 ELSE IF res.err # "OK" THEN Failed(res.err)
                 ELSE [pc |-> "saving", kind |-> kind, loaded |-> stored,
                       doc |-> withReason(res.invoice, kind, comment)]]
  /\ UNCHANGED <<stored, storedStage, guardRev>>
  /\ UNCHANGED <<engineVars, allocVars, createVars, auditVars>>

\* The pre-save hook reads the stored document and checks its status.
ReqGuard(r) ==
  /\ req[r].pc = "saving"
  /\ req' = [req EXCEPT ![r] =
               IF guardRev = "src" /\ preSaveGuardThrows(stored)
               THEN Failed("FinalizedInDb")
               ELSE IF guardRev = "part_007" /\ preSaveGuardThrowsOnDoc(req[r].doc)
               THEN Failed("FinalizedModified")
               ELSE [@ EXCEPT !.pc = "writing"]]
  /\ UNCHANGED <<stored, storedStage, started, guardRev>>
  /\ UNCHANGED <<engineVars, allocVars, createVars, auditVars>>

\* The payload a handler passes to logAction after save(): the event, the
\* acting user and the metadata, all taken from the request whose entry is the
\* last one of the saved document.
auditPayload(doc) ==
  LET e == Last(doc.approvalHistory) IN
  [action |-> IF e.action = "APPROVED" THEN "INVOICE_APPROVED" ELSE "INVOICE_REJECTED",
   user |-> [id |-> e.by, role |-> e.role],
   resource |-> Resource(Str(StoredInvoiceId)),
   metadata |-> [comment |-> e.comment, finalStatus |-> doc.status]]

\* logAction: `if (!action || !resource || !resource.type || !resource.id) return`
dropsLog(payload) ==
  \/ Falsy(payload.action)
  \/ payload.resource = NoResource
  \/ ~Truthy(payload.resource.type)
  \/ ~Truthy(payload.resource.id)

\* AuditLog.createLog(payload): the promise it returns is rejected for a
\* payload without action or resource and when the insert fails.
createLog(payload, saveFails) ==
  IF Falsy(payload.action) \/ payload.resource = NoResource THEN "rejected"
  ELSE IF saveFails THEN "rejected"
  ELSE "fulfilled"

\* Variant: the error of the write is passed on to the caller of logAction.
catchAuditError_Rethrow(outcome) ==
  IF outcome = "rejected" THEN "rejected" ELSE "resolved"

\* The try/catch of logAction around the write: the error is logged to the
\* console and the promise of logAction resolves.
catchAuditError(outcome) ==
  "resolved"

\* s without its i-th element.
RemoveAt(s, i) == SubSeq(s, 1, i - 1) \o SubSeq(s, i + 1, Len(s))

\* logAction: AuditLog.createLog(payload) inserts the record.
AuditWrite ==
  /\ \E i \in 1..Len(pendingAudit) :
       /\ auditLog' = Append(auditLog, pendingAudit[i])
       /\ pendingAudit' = RemoveAt(pendingAudit, i)
       /\ logPromise' = catchAuditError(createLog(pendingAudit[i], FALSE))
  /\ UNCHANGED auditOp
  /\ UNCHANGED <<engineVars, storeVars, allocVars, createVars>>

\* logAction: the insert fails; the error is caught and logged to the console.
AuditFails ==
  /\ \E i \in 1..Len(pendingAudit) :
       /\ pendingAudit' = RemoveAt(pendingAudit, i)
       /\ logPromise' = catchAuditError(createLog(pendingAudit[i], TRUE))
  /\ UNCHANGED <<auditLog, auditOp>>
  /\ UNCHANGED <<engineVars, storeVars, allocVars, createVars>>

\* The update of save() reaches the database; the handler calls logAction
\* and answers 200.
ReqWrite(r) ==
  /\ req[r].pc = "writing"
  /\ stored' = saveUpdate(stored, req[r].loaded, req[r].doc)
  /\ storedStage' = Append(storedStage, getExpectedRole(req[r].loaded))
  /\ req' = [req EXCEPT ![r] = [pc |-> "done"]]
  /\ pendingAudit' = Append(pendingAudit, auditPayload(req[r].doc))
  /\ UNCHANGED <<started, guardRev, auditLog, auditOp, logPromise>>
  /\ UNCHANGED <<engineVars, allocVars, createVars>>

\* The events handlers log, and a call that leaves the action out.
AuditEvents == {"LOGIN", "INVOICE_APPROVED", UNDEF}

\* The payloads handlers pass to logAction.
AuditInputs ==
  [action : AuditEvents,
   user : {[id |-> "u1", role |-> "employee"], [id |-> "u2", role |-> "manager"]},
   resource : {NoResource, Resource(Undefined), Resource(Str(StoredInvoiceId))},
   metadata : {[comment |-> NULL, finalStatus |-> NULL]}]

\* Those of them that lack the action or the resource (or its id).
IncompleteInputs == {payload \in AuditInputs : dropsLog(payload)}

\* A handler calls logAction with one of the given payloads: a payload without action or resource is dropped
\* and the call resolves at once, any other is handed to AuditLog.createLog.
LogActionCall(payloads) ==
  /\ Len(pendingAudit) + Len(auditLog) < MaxLog
  /\ \E payload \in payloads :
       IF dropsLog(payload)
       THEN /\ logPromise' = "resolved"
            /\ UNCHANGED pendingAudit
       ELSE /\ pendingAudit' = Append(pendingAudit, payload)
            /\ UNCHANGED logPromise
  /\ UNCHANGED <<auditLog, auditOp>>
  /\ UNCHANGED <<engineVars, storeVars, allocVars, createVars>>

NextStore ==
  \/ \E r \in Requests : ReqLoad(r) \/ ReqGuard(r) \/ ReqWrite(r)
  \/ AuditWrite
  \/ AuditFails
  \/ LogActionCall(IncompleteInputs)

\* A fresh database: one invoice just submitted by u1, no counter record, no
\* audit record.
InitFresh ==
  /\ invoice = NewInvoice("u1")
  /\ before = invoice
  /\ guardRev = "src"
  /\ InitRest

SpecStore == InitFresh /\ [][NextStore]_vars

\* The same database with either revision of the Invoice model, the requests
\* handled one at a time.
InitGuard ==
  /\ invoice = NewInvoice("u1")
  /\ before = invoice
  /\ guardRev \in GuardRevisions
  /\ InitRest

NextGuard ==
  \/ ReqLoad(1)
  \/ ReqGuard(1)
  \/ ReqWrite(1)
  \/ AuditWrite
  \/ AuditFails

SpecGuard == InitGuard /\ [][NextGuard]_vars

\* ------------------------------------------------------------------ allocator
\* generateInvoiceId(): no options given.
NoOptions == [padding |-> Undefined, prefix |-> Undefined, year |-> Undefined]

\* The options objects passed by callers: paddings and prefixes of every
\* type, a falsy year, a string prefix with a padding, and a prefix function
\* with another year.
Options ==
  {[NoOptions EXCEPT !.padding = p] :
     p \in {Undefined, Num(0), Num(MaxPadding + 1), Frac(1), Str(<<"6">>)}}
  \cup {[NoOptions EXCEPT !.prefix = p] : p \in {Str(<<>>), Num(42)}}
  \cup {[NoOptions EXCEPT !.year = Num(0)],
        [NoOptions EXCEPT !.prefix = Str(<<"X">>), !.padding = Num(MinPadding)],
        [NoOptions EXCEPT !.prefix = Fn("P"), !.year = Num(CurrentYear + 1)],
        [NoOptions EXCEPT !.prefix = Num(42), !.padding = Num(MinPadding)]}

\* Math.floor(Math.random() * 1e6): the two ends of its range.
RndValues == {0, RandomRange - 1}

\* Variant: the update writes the value a stale read would give (seq 1)
\* instead of incrementing.
\* Variant: the update adds 2.
incSeq_ByTwo(coll, year) ==
  [y \in DOMAIN coll \cup {year} |->
     IF y = year THEN (IF y \in DOMAIN coll THEN coll[y] + 2 ELSE 2) ELSE coll[y]]
incSeq_SetToOne(coll, year) ==
  [y \in DOMAIN coll \cup {year} |-> IF y = year THEN 1 ELSE coll[y]]

\* findOneAndUpdate({_id}, {$inc: {seq: 1}}, {new: true, upsert: true}): the
\* collection after the update; a missing record is inserted with seq 1.
incSeq(coll, year) ==
  [y \in DOMAIN coll \cup {year} |->
     IF y = year THEN (IF y \in DOMAIN coll THEN coll[y] + 1 ELSE 1) ELSE coll[y]]

\* The locals of a call that passed validation: year, padding and prefix.
Locals(options) ==
  [year |-> yearOf(options), padding |-> paddingOf(options), prefix |-> prefixOf(options)]

\* A call that returned id.
Returned(c, l, id, mode) ==
  [caller |-> c, threw |-> FALSE, year |-> l.year, padding |-> l.padding,
   prefix |-> l.prefix, id |-> id, mode |-> mode]

\* A call that threw err.
Threw(c, options, err, wasConnected) ==
  [caller |-> c, threw |-> TRUE, options |-> options, err |-> err,
   connected |-> wasConnected]

Issue(id, mode, year) == [id |-> id, mode |-> mode, year |-> year]

\* Calls that got past validation: those in flight and those that returned.
CallsMade == BagCardinality(issued) + Cardinality({c \in Callers : gen[c].pc = "awaiting"})

\* generateInvoiceId(options) up to its await: validation, then the fallback
\* when the connection is not ready, else the update is sent.
AllocStart(c, options) ==
  /\ ret = NoRet
  /\ gen[c].pc = "idle"
  /\ LET err == validateOptions(options)
         l == Locals(options)
     IN
     IF err # "OK"
     THEN /\ ret' = Threw(c, options, err, connected)
          /\ UNCHANGED <<gen, issued>>
     ELSE IF ~connected
     THEN \E rnd \in RndValues :
            LET id == fallbackId(l.prefix, now, rnd, l.padding) IN
            /\ ret' = Returned(c, l, id, "fallback")
            /\ issued' = issued (+) SetToBag({Issue(id, "fallback", l.year)})
            /\ UNCHANGED gen
     ELSE /\ gen' = [gen EXCEPT ![c] = [pc |-> "awaiting", l |-> l]]
          /\ UNCHANGED <<ret, issued>>
  /\ UNCHANGED <<counters, connected, seqOp>>

\* A caller calls generateInvoiceId with some options.
GenStart(c) ==
  /\ CallsMade < MaxCalls
  /\ \E options \in Options : AllocStart(c, options)
  /\ UNCHANGED <<engineVars, storeVars, createVars, auditVars>>

\* The atomic increment is applied and its result returned.
GenUpdate(c) ==
  /\ ret = NoRet
  /\ gen[c].pc = "awaiting"
  /\ connected
  /\ LET l == gen[c].l
         coll == incSeq(counters, l.year)
         id == normalId(l.prefix, coll[l.year], l.padding)
     IN /\ counters' = coll
        /\ ret' = Returned(c, l, id, "normal")
        /\ issued' = issued (+) SetToBag({Issue(id, "normal", l.year)})
  /\ gen' = [gen EXCEPT ![c] = IdleGen]
  /\ UNCHANGED <<connected, seqOp>>
  /\ UNCHANGED <<engineVars, storeVars, createVars, auditVars>>

\* The update fails (before or after it was applied): the catch block
\* returns the emergency fallback.
GenUpdateFails(c) ==
  /\ ret = NoRet
  /\ gen[c].pc = "awaiting"
  /\ \E applied \in BOOLEAN, rnd \in RndValues :
       LET l == gen[c].l
           id == fallbackId(l.prefix, now, rnd, l.padding)
       IN /\ counters' = IF applied THEN incSeq(counters, l.year) ELSE counters
          /\ ret' = Returned(c, l, id, "fallback")
          /\ issued' = issued (+) SetToBag({Issue(id, "fallback", l.year)})
  /\ gen' = [gen EXCEPT ![c] = IdleGen]
  /\ UNCHANGED <<connected, seqOp>>
  /\ UNCHANGED <<engineVars, storeVars, createVars, auditVars>>

\* The caller has the outcome of its call and goes on.
GenContinue ==
  /\ ret # NoRet
  /\ ret' = NoRet
  /\ UNCHANGED <<counters, connected, gen, issued, seqOp>>
  /\ UNCHANGED <<engineVars, storeVars, createVars, auditVars>>

\* The connection to the database is lost.
Disconnect ==
  /\ ret = NoRet
  /\ connected
  /\ connected' = FALSE
  /\ UNCHANGED <<counters, gen, ret, issued, seqOp>>
  /\ UNCHANGED <<engineVars, storeVars, createVars, auditVars>>

\* The connection to the database is back.
Reconnect ==
  /\ ret = NoRet
  /\ ~connected
  /\ connected' = TRUE
  /\ UNCHANGED <<counters, gen, ret, issued, seqOp>>
  /\ UNCHANGED <<engineVars, storeVars, createVars, auditVars>>

NextAlloc ==
  \/ \E c \in Callers : GenStart(c) \/ GenUpdate(c) \/ GenUpdateFails(c)
  \/ GenContinue
  \/ Disconnect
  \/ Reconnect
  \/ Tick

SpecAlloc == InitFresh /\ [][NextAlloc]_vars

\* ------------------------------------------------------------------ counter access
\* The years callers ask about: this year and the next.
SeqYears == {CurrentYear, CurrentYear + 1}

\* The values passed to setSeq: integers, a negative one and a fraction.
SeqValues == {Num(0), Num(2), Num(0 - 1), Frac(1)}

\* Counter.findById(`invoiceId:${year}`): `doc ? doc.seq : null`
findSeq(coll, year) == IF year \in DOMAIN coll THEN Num(coll[year]) ELSE Undefined

\* findOneAndUpdate({_id}, {$set: {seq: value}}, {new: true, upsert: true})
setCounter(coll, year, value) ==
  [y \in DOMAIN coll \cup {year} |-> IF y = year THEN value ELSE coll[y]]

\* getCurrentSeq(year): null without a connection or without a record.
GetCurrentSeq ==
  /\ seqOp = NoCall
  /\ ret = NoRet
  /\ \E year \in SeqYears :
       seqOp' = [op |-> "getCurrentSeq", year |-> year, threw |-> FALSE,
                 result |-> IF ~connected THEN Undefined ELSE findSeq(counters, year)]
  /\ UNCHANGED <<counters, connected, gen, ret, issued>>
  /\ UNCHANGED <<engineVars, storeVars, createVars, auditVars>>

\* setSeq(value, year): a TypeError for a value that is not a non-negative
\* integer; else the record is written (and inserted when missing). Without a
\* connection the buffered operation times out and the call rejects.
SetSeq ==
  /\ seqOp = NoCall
  /\ ret = NoRet
  /\ \E value \in SeqValues, year \in SeqYears :
       IF ~isInteger(value) \/ value.n < 0
       THEN /\ seqOp' = [op |-> "setSeq", year |-> year, threw |-> TRUE,
                         result |-> Undefined]
            /\ UNCHANGED counters
       ELSE IF ~connected
       THEN /\ seqOp' = [op |-> "setSeq", year |-> year, threw |-> TRUE,
                         result |-> Undefined]
            /\ UNCHANGED counters
       ELSE /\ counters' = setCounter(counters, year, value.n)
            /\ seqOp' = [op |-> "setSeq", year |-> year, threw |-> FALSE,
                         result |-> value]
  /\ UNCHANGED <<connected, gen, ret, issued>>
  /\ UNCHANGED <<engineVars, storeVars, createVars, auditVars>>

\* The caller has the outcome of its getCurrentSeq or setSeq call and goes on.
SeqContinue ==
  /\ seqOp # NoCall
  /\ seqOp' = NoCall
  /\ UNCHANGED <<counters, connected, gen, ret, issued>>
  /\ UNCHANGED <<engineVars, storeVars, createVars, auditVars>>

\* generateInvoiceId, getCurrentSeq and setSeq called in any order, each
\* caller looking at the outcome of a call before the next call is made.
NextSeq ==
  \/ /\ seqOp = NoCall
     /\ \/ \E c \in Callers : GenStart(c) \/ GenUpdate(c) \/ GenUpdateFails(c)
        \/ GenContinue
        \/ Disconnect
        \/ Reconnect
  \/ GetCurrentSeq
  \/ SetSeq
  \/ SeqContinue

SpecSeq == InitFresh /\ [][NextSeq]_vars

\* ------------------------------------------------------------------ createInvoice
MAX_RETRIES == 3

\* The two revisions of the controller.
Revisions == {"src", "backend"}

\* What a request brings: no file, a body that fails validation, no
\* authenticated user, or a valid submission.
CreateInputs == {"nofile", "invalid", "unauthenticated", "ok"}

\* multer's temp name of the uploaded file of request c.
TempPath(c) == <<"t", "e", "m", "p">> \o String(c)

\* The error codes of a failed attempt: a duplicate key, a missing file on
\* rename, any other failure of save().
DUPLICATE_KEY == "11000"

\* The answer of a request with the bookkeeping of its attempts.
Respond(r, status) == [r EXCEPT !.pc = "responded", !.status = status]

\* multer stores the upload of request c under its temp name.
upload(fs, c) ==
  [q \in DOMAIN fs \cup {TempPath(c)} |-> IF q = TempPath(c) THEN c ELSE fs[q]]

\* `if (fs.existsSync(p)) fs.unlinkSync(p)`
unlinkIfExists(fs, p) == [q \in DOMAIN fs \ {p} |-> fs[q]]

\* fs.renameSync(from, to) on an existing file: `to` is replaced.
renameSync(fs, from, to) ==
  [q \in (DOMAIN fs \ {from}) \cup {to} |-> IF q = to THEN fs[from] ELSE fs[q]]

\* The request arrives: upload, validation and authentication checks.
CreateReceive(c) ==
  /\ ret = NoRet
  /\ creq[c].pc = "idle"
  /\ \E rev \in Revisions, input \in CreateInputs :
       LET r == [pc |-> "loop", caller |-> c, rev |-> rev, status |-> 0, attempt |-> 1,
                 currentFilePath |-> TempPath(c), id |-> <<>>,
                 allocs |-> 0, saves |-> 0, errs |-> <<>>, persisted |-> {}]
       IN
       CASE input = "nofile" ->
              /\ creq' = [creq EXCEPT ![c] = Respond(r, 400)]
              /\ UNCHANGED files
         [] input = "invalid" ->
              \* src: throws into the outer catch, which unlinks the file;
              \* backend: unlinks the file and answers 400
              /\ creq' = [creq EXCEPT ![c] = Respond(r, IF rev = "src" THEN 500 ELSE 400)]
              /\ files' = unlinkIfExists(upload(files, c), TempPath(c))
         [] input = "unauthenticated" ->
              /\ creq' = [creq EXCEPT ![c] = Respond(r, 401)]
              /\ files' = IF rev = "src" THEN upload(files, c)
                          ELSE unlinkIfExists(upload(files, c), TempPath(c))
         [] OTHER ->
              /\ creq' = [creq EXCEPT ![c] = r]
              /\ files' = upload(files, c)
  /\ UNCHANGED invoices
  /\ UNCHANGED <<engineVars, storeVars, allocVars, auditVars>>

\* An attempt of the loop begins: generateInvoiceId() is called.
CreateAllocate(c) ==
  /\ creq[c].pc = "loop"
  /\ creq[c].attempt <= MAX_RETRIES
  /\ AllocStart(c, NoOptions)
  /\ creq' = [creq EXCEPT ![c].pc = "allocating", ![c].allocs = @ + 1]
  /\ UNCHANGED <<invoices, files>>
  /\ UNCHANGED <<engineVars, storeVars, auditVars>>

\* Variant: the loop goes on after any error.
AttemptFailed_RetryAnyError(r, err, fs) ==
  LET r1 == [r EXCEPT !.errs = Append(@, err)] IN
  IF r.attempt < MAX_RETRIES
  THEN [req |-> [r1 EXCEPT !.pc = "loop", !.attempt = @ + 1], files |-> fs]
  ELSE [req |-> Respond(r1, 500), files |-> unlinkIfExists(fs, r1.currentFilePath)]

\* The attempt of request r failed with err: the inner catch, and what
\* follows the loop when it is left.
AttemptFailed(r, err, fs) ==
  LET r1 == [r EXCEPT !.errs = Append(@, err)] IN
  IF err = DUPLICATE_KEY /\ r.attempt < MAX_RETRIES
  THEN [req |-> [r1 EXCEPT !.pc = "loop", !.attempt = @ + 1], files |-> fs]
  ELSE IF r.rev = "src"
  THEN \* throw lastError: the outer catch unlinks currentFilePath
       [req |-> Respond(r1, 500), files |-> unlinkIfExists(fs, r1.currentFilePath)]
  ELSE IF err = DUPLICATE_KEY
  THEN \* the loop ends: 'Failed to create invoice'
       [req |-> Respond(r1, 500), files |-> fs]
  ELSE \* the inner catch unlinks req.file.path and answers 500
       [req |-> Respond(r1, 500), files |-> unlinkIfExists(fs, TempPath(r.caller))]

\* generateInvoiceId has returned: the uploaded file is renamed to the
\* identifier, the document is built and save() is called.
CreateRename(c) ==
  /\ ret # NoRet
  /\ ret.caller = c
  /\ creq[c].pc = "allocating"
  /\ ret' = NoRet
  /\ LET r == [creq[c] EXCEPT !.id = ret.id]
         from == IF r.rev = "src" THEN r.currentFilePath ELSE TempPath(c)
     IN
     IF from \notin DOMAIN files
     THEN LET out == AttemptFailed(r, "ENOENT", files) IN
          /\ creq' = [creq EXCEPT ![c] = out.req]
          /\ files' = out.files
     ELSE /\ creq' = [creq EXCEPT ![c] = [r EXCEPT !.pc = "saving",
                                                  !.currentFilePath = ret.id]]
          /\ files' = renameSync(files, from, ret.id)
  /\ UNCHANGED invoices
  /\ UNCHANGED <<counters, connected, gen, issued, seqOp>>
  /\ UNCHANGED <<engineVars, storeVars, auditVars>>

\* The payload createInvoice passes to logAction.
submittedPayload(id) ==
  [action |-> "INVOICE_SUBMITTED",
   user |-> [id |-> "u1", role |-> "employee"],
   resource |-> Resource(Str(id)),
   metadata |-> [comment |-> NULL, finalStatus |-> "PENDING"]]

\* save() settles: the insert succeeds, or is refused by the unique index on
\* invoiceId, or fails otherwise.
CreateSave(c) ==
  /\ ret = NoRet
  /\ creq[c].pc = "saving"
  /\ LET r == [creq[c] EXCEPT !.saves = @ + 1]
         exists == \E inv \in invoices : inv.invoiceId = r.id
     IN
     \E outcome \in {"settled", "error"} :
       IF outcome = "settled" /\ connected /\ ~exists
       THEN /\ invoices' = invoices \cup {[invoiceId |-> r.id, by |-> c]}
            /\ creq' = [creq EXCEPT ![c] =
                          Respond([r EXCEPT !.persisted = @ \cup {r.id}], 201)]
            /\ pendingAudit' = Append(pendingAudit, submittedPayload(r.id))
            /\ UNCHANGED <<files, auditLog, auditOp, logPromise>>
       ELSE LET err == IF outcome = "settled" /\ connected THEN DUPLICATE_KEY
                       ELSE "other"
                out == AttemptFailed(r, err, files)
            IN /\ creq' = [creq EXCEPT ![c] = out.req]
               /\ files' = out.files
               /\ UNCHANGED <<invoices, auditVars>>
  /\ UNCHANGED <<engineVars, storeVars, allocVars>>

NextCreate ==
  \/ \E c \in Callers :
       \/ CreateReceive(c)
       \/ CreateAllocate(c)
       \/ GenUpdate(c)
       \/ GenUpdateFails(c)
       \/ CreateRename(c)
       \/ CreateSave(c)
  \/ AuditWrite
  \/ AuditFails
  \/ Disconnect
  \/ Reconnect
  \/ Tick

SpecCreate == InitFresh /\ [][NextCreate]_vars

\* ------------------------------------------------------------------ audit log
\* The query operations of a Mongoose model that write.
QueryOperations ==
  {"updateOne", "updateMany", "findOneAndUpdate", "replaceOne", "findOneAndReplace",
   "deleteOne", "deleteMany", "findOneAndDelete"}

\* The operations for which the schema registers the PREVENT_UPDATE hook.
PREVENT_UPDATE ==
  {"updateOne", "updateMany", "findOneAndUpdate", "findByIdAndUpdate",
   "deleteOne", "deleteMany", "findOneAndDelete"}

\* What a tampering update or replacement makes of a record.
Tampered(rec) == [rec EXCEPT !.action = "TAMPERED"]

\* The collection after a query operation that no hook stopped, aimed at
\* record i (the ...Many operations take every record).
applyQuery(op, log, i) ==
  CASE op \in {"updateOne", "findOneAndUpdate", "replaceOne", "findOneAndReplace"} ->
         [log EXCEPT ![i] = Tampered(@)]
    [] op = "updateMany" -> [j \in 1..Len(log) |-> Tampered(log[j])]
    [] op \in {"deleteOne", "findOneAndDelete"} -> RemoveAt(log, i)
    [] OTHER -> <<>>

\* save() on a record read from the collection and changed: the pre('save')
\* hook rejects it because the document is not new.
AuditSaveExisting ==
  /\ \E i \in 1..Len(auditLog) :
       auditOp' = [op |-> "save", target |-> i, rejected |-> TRUE]
  /\ UNCHANGED <<pendingAudit, auditLog, logPromise>>
  /\ UNCHANGED <<engineVars, storeVars, allocVars, createVars>>

\* A writing query operation on the model, aimed at an existing record.
AuditQuery ==
  /\ \E op \in QueryOperations, i \in 1..Len(auditLog) :
       /\ auditOp' = [op |-> op, target |-> i, rejected |-> op \in PREVENT_UPDATE]
       /\ auditLog' = IF op \in PREVENT_UPDATE THEN auditLog
                      ELSE applyQuery(op, auditLog, i)
  /\ UNCHANGED <<pendingAudit, logPromise>>
  /\ UNCHANGED <<engineVars, storeVars, allocVars, createVars>>

NextAudit ==
  \/ LogActionCall(AuditInputs)
  \/ AuditWrite
  \/ AuditFails
  \/ AuditSaveExisting
  \/ AuditQuery

SpecAudit == InitFresh /\ [][NextAudit]_vars

Next == NextEngine \/ NextStore \/ NextAlloc \/ NextSeq \/ NextCreate \/ NextAudit

Spec == Init /\ [][Next]_vars

\* ------------------------------------------------------------------ claims
Final == {"APPROVED", "REJECTED"}
InvalidInputKinds == {"InvoiceRequired", "UserContextRequired", "InvalidAction"}

\* A call was made and its outcome is in `call`.
Called == call # NoCall

\* The user of the call is present with an id and a role.
UserGiven ==
  /\ call.args.user # NoUser
  /\ call.args.user.id \in Ids
  /\ call.args.user.role \in ROLES

\* The call is well formed: invoice and user given, action APPROVE or REJECT.
WellFormed ==
  /\ Called
  /\ call.args.hasInvoice
  /\ UserGiven
  /\ call.args.action \in {"APPROVE", "REJECT"}

ByRole(role) == call.args.user.role = role
BySubmitter == call.args.user.id = before.submittedBy

\* The comment a history entry carries for the comment given: the comment
\* itself, null when none (or an empty one) was given.
Carried(comment) == IF comment \in {UNDEF, EMPTY} THEN NULL ELSE comment

\* The entry the call is to append.
ExpectedEntry(recorded) ==
  [action |-> recorded,
   by |-> call.args.user.id,
   role |-> call.args.user.role,
   timestamp |-> now,
   comment |-> Carried(call.args.comment)]

\* The role of the stage a PENDING invoice is in, by the shape of its history.
StageRole(inv) ==
  IF inv.approvalHistory = <<>> THEN "manager"
  ELSE IF Last(inv.approvalHistory).action = "APPROVED"
          /\ Last(inv.approvalHistory).role \in {"manager", "admin"}
  THEN "finance"
  ELSE NULL

ManagerApproved(inv) ==
  /\ inv.status = "PENDING"
  /\ Len(inv.approvalHistory) = 1
  /\ inv.approvalHistory[1].action = "APPROVED"
  /\ inv.approvalHistory[1].role = "manager"

\* C1: on a PENDING invoice, for an actor who is not the submitter: APPROVE by
\* a manager on an empty history leaves the status PENDING and appends exactly
\* one entry {APPROVED, manager}; a following APPROVE by a finance user sets the
\* status APPROVED with a history of length 2; REJECT by the expected role of
\* either stage sets the status REJECTED, appends exactly one REJECTED entry
\* carrying the given comment, and sets currentApprover to null.
C1_Scenarios ==
  (WellFormed /\ before.status = "PENDING" /\ ~BySubmitter) =>
    /\ (call.args.action = "APPROVE" /\ ByRole("manager")
        /\ before.approvalHistory = <<>>) =>
          /\ call.err = "OK"
          /\ invoice.status = "PENDING"
          /\ invoice.approvalHistory = <<ExpectedEntry("APPROVED")>>
    /\ (call.args.action = "APPROVE" /\ ByRole("finance")
        /\ ManagerApproved(before)) =>
          /\ call.err = "OK"
          /\ invoice.status = "APPROVED"
          /\ Len(invoice.approvalHistory) = 2
          /\ invoice.approvalHistory =
               Append(before.approvalHistory, ExpectedEntry("APPROVED"))
    /\ (call.args.action = "REJECT" /\ StageRole(before) # NULL
        /\ ByRole(StageRole(before))) =>
          /\ call.err = "OK"
          /\ invoice.status = "REJECTED"
          /\ invoice.approvalHistory =
               Append(before.approvalHistory, ExpectedEntry("REJECTED"))
          /\ invoice.currentApprover = NULL

\* C1 witness: the finance approval that follows a successful manager approval
\* has finalised the invoice.
C1_Witness ==
  /\ WellFormed /\ call.err = "OK"
  /\ prev # NoCall /\ prev.stage = "manager" /\ prev.args.action = "APPROVE"
  /\ prev.args.user.role = "manager"
  /\ ByRole("finance") /\ call.args.action = "APPROVE"
  /\ invoice.status = "APPROVED"

\* C2: on an invoice whose status is APPROVED or REJECTED every (well-formed)
\* call fails with the already-finalized error, whatever the actor and action.
C2_AlreadyFinalized ==
  (WellFormed /\ before.status \in Final) =>
    /\ call.err = "AlreadyFinalized"
    /\ call.detail = before.status
    /\ invoice = before

\* C2 witness: an admin's REJECT on a REJECTED invoice has failed.
C2_Witness ==
  /\ WellFormed /\ before.status = "REJECTED"
  /\ ByRole("admin") /\ call.args.action = "REJECT"
  /\ call.err = "AlreadyFinalized"

\* C3 as stated: for every invoice, a call by the submitter under a non-admin
\* role fails with the conflict-of-interest error.
C3_Original ==
  (WellFormed /\ BySubmitter /\ ~ByRole("admin")) =>
    call.err = "ConflictOfInterest"

\* C3 amended: for every invoice that is not finalized, a call by the
\* submitter under a non-admin role fails with the conflict-of-interest error
\* and leaves the invoice as it was.
C3_ConflictOfInterest ==
  (WellFormed /\ BySubmitter /\ ~ByRole("admin") /\ before.status \notin Final) =>
    /\ call.err = "ConflictOfInterest"
    /\ invoice = before

\* C3 witness: the submitter, as employee, tried to approve their own new invoice.
C3_Witness ==
  /\ WellFormed /\ BySubmitter /\ ByRole("employee")
  /\ call.args.action = "APPROVE"
  /\ before.status = "PENDING" /\ before.approvalHistory = <<>>
  /\ call.err = "ConflictOfInterest"
  /\ Len(invoice.approvalHistory) = 0

\* C4: no history entry is by the invoice's submitter unless it was made under
\* the actual role admin.
C4_NoSubmitterEntry ==
  \A i \in 1..Len(invoice.approvalHistory) :
    invoice.approvalHistory[i].by = invoice.submittedBy =>
      invoice.approvalHistory[i].role = "admin"

\* C4 witness: a history of two entries, one by the submitter acting as admin
\* and one by somebody else.
C4_Witness ==
  /\ Len(invoice.approvalHistory) = 2
  /\ invoice.approvalHistory[1].by = invoice.submittedBy
  /\ invoice.approvalHistory[1].role = "admin"
  /\ invoice.approvalHistory[2].by # invoice.submittedBy

\* The preconditions of processAction, each stated on the arguments alone.
InvalidInput ==
  \/ ~call.args.hasInvoice
  \/ ~UserGiven
  \/ call.args.action \notin {"APPROVE", "REJECT"}
Finalized == before.status \in Final
Conflict == BySubmitter /\ ~ByRole("admin")
NoExpected == before.status # "PENDING" \/ StageRole(before) = NULL
WrongRole == ~ByRole(StageRole(before)) /\ ~ByRole("admin")

\* C5: the preconditions are evaluated in the order invalid input, already
\* finalized, conflict of interest, no expected role, wrong stage: the error of
\* a call is that of the earliest precondition it violates, and a call that
\* violates none succeeds.
C5_PreconditionOrder ==
  Called =>
    IF InvalidInput THEN call.err \in InvalidInputKinds
    ELSE IF Finalized THEN call.err = "AlreadyFinalized"
    ELSE IF Conflict THEN call.err = "ConflictOfInterest"
    ELSE IF NoExpected THEN call.err = "NoActionExpected"
    ELSE IF WrongRole THEN call.err = "WrongStage"
    ELSE call.err = "OK"

\* C5 witness: a non-admin submitter with the wrong role for the stage has got
\* conflict of interest, not wrong stage.
C5_Witness ==
  /\ WellFormed /\ ~Finalized
  /\ Conflict /\ ~NoExpected /\ WrongRole
  /\ call.err = "ConflictOfInterest"

\* C6: on a PENDING invoice with expected role R, a call by a non-submitter
\* whose role is neither R nor admin fails with the wrong-stage error naming R;
\* and no call by a user with role employee ever succeeds.
C6_WrongStage ==
  /\ (WellFormed /\ before.status = "PENDING" /\ ~BySubmitter) =>
       /\ (StageRole(before) = "manager" /\ ~ByRole("manager") /\ ~ByRole("admin")) =>
            (call.err = "WrongStage" /\ call.detail = "MANAGER" /\ invoice = before)
       /\ (StageRole(before) = "finance" /\ ~ByRole("finance") /\ ~ByRole("admin")) =>
            (call.err = "WrongStage" /\ call.detail = "FINANCE" /\ invoice = before)
  /\ (Called /\ call.args.user # NoUser /\ ByRole("employee")) => call.err # "OK"

\* C6 witness: an employee's APPROVE on a manager-approved invoice has failed
\* with the wrong-stage error naming finance.
C6_Witness ==
  /\ WellFormed /\ ManagerApproved(before) /\ ~BySubmitter
  /\ ByRole("employee") /\ call.args.action = "APPROVE"
  /\ call.err = "WrongStage" /\ call.detail = "FINANCE"

\* The call before this one succeeded and ended the workflow: a REJECT, or the
\* APPROVE of the finance stage.
PrevWasTerminal ==
  /\ prev # NoCall
  /\ prev.args.action = "REJECT" \/ prev.stage = "finance"

\* C7: a call that repeats a terminal-inducing call fails with the
\* already-finalized error and leaves approvalHistory (and the whole invoice)
\* as the first call left it, so the transition is performed exactly once.
C7_RepeatFails ==
  (Called /\ PrevWasTerminal /\ call.args = prev.args) =>
    /\ call.err = "AlreadyFinalized"
    /\ invoice.approvalHistory = before.approvalHistory
    /\ invoice = before
    /\ Len(invoice.approvalHistory) \in {1, 2}

\* C7 witness: the repeated APPROVE of the finance stage has failed.
C7_Witness ==
  /\ Called /\ prev # NoCall /\ call.args = prev.args
  /\ prev.stage = "finance" /\ prev.args.action = "APPROVE"
  /\ call.err = "AlreadyFinalized"
  /\ Len(invoice.approvalHistory) = 2

\* C8: approvalHistory only grows by appending: the history before a call is a
\* prefix of the history after it, whether the call succeeds or fails.
C8_AppendOnly ==
  /\ IsPrefix(before.approvalHistory, invoice.approvalHistory)
  /\ (Called /\ call.err # "OK") => invoice.approvalHistory = before.approvalHistory
  /\ (Called /\ call.err = "OK") =>
       Len(invoice.approvalHistory) = Len(before.approvalHistory) + 1

\* C8 witness: a successful call has appended a second entry after the first.
C8_Witness ==
  /\ Called /\ call.err = "OK"
  /\ Len(before.approvalHistory) = 1
  /\ Len(invoice.approvalHistory) = 2
  /\ invoice.approvalHistory[1] = before.approvalHistory[1]

\* C9: under any interleaving of concurrent approve/reject requests, once the
\* stored status is APPROVED or REJECTED the stored status and the stored
\* approvalHistory never change again.
C9_FinalizedNeverChanges ==
  [][stored.status \in Final =>
       /\ stored'.status = stored.status
       /\ stored'.approvalHistory = stored.approvalHistory]_vars

\* C10: of the requests that act on the invoice in the same stage at most one
\* persists its history entry, so the stored approvalHistory never holds two
\* entries made for the same stage.
C10_OneEntryPerStage ==
  \A i, j \in 1..Len(storedStage) :
    i # j => storedStage[i] # storedStage[j]

\* ------------------------------------------------------------------ allocator claims
\* A call has just returned an identifier.
JustReturned == ret # NoRet /\ ~ret.threw

\* Number of times id was returned, in whatever mode and year.
TimesReturned(id) ==
  BagCardinality([e \in {x \in BagToSet(issued) : x.id = id} |-> issued[e]])

\* Number of identifiers returned for year y.
ReturnedFor(y) ==
  BagCardinality([e \in {x \in BagToSet(issued) : x.year = y} |-> issued[e]])

\* The decimal digits of k, filled with zeros on the left up to width places.
ZeroPadded(k, width) ==
  LET d == String(k)
      w == IF Len(d) > width THEN Len(d) ELSE width
  IN [i \in 1..w |-> IF i <= w - Len(d) THEN "0" ELSE d[i - (w - Len(d))]]

\* C11: with the counter store available, the calls made for the same year,
\* however they interleave, return pairwise distinct identifiers: no
\* normal-mode identifier of a year is returned twice.
C11_ConcurrentDistinct ==
  \A e \in BagToSet(issued) :
    e.mode = "normal" =>
      /\ CopiesIn(e, issued) = 1
      /\ \A f \in BagToSet(issued) :
           (f.mode = "normal" /\ f.year = e.year /\ f # e) => f.id # e.id

\* C11 witness: three calls for the same year overlapped; two have returned
\* different identifiers and the third is still in flight.
C11_Witness ==
  /\ JustReturned /\ ret.mode = "normal"
  /\ \E c \in Callers : gen[c].pc = "awaiting" /\ gen[c].l.year = ret.year
  /\ \E e \in BagToSet(issued) :
       e.mode = "normal" /\ e.year = ret.year /\ e.id # ret.id

\* C12: starting with no counter record, while every call for a year has
\* returned in normal mode, the k-th call for that year returns its prefix,
\* a dash and k zero-padded to its padding; with the default options the
\* identifiers are INV-2026-000001, INV-2026-000002, INV-2026-000003.
C12_SequentialIds ==
  (/\ JustReturned
   /\ \A e \in BagToSet(issued) : e.year = ret.year => e.mode = "normal")
  => /\ ret.id = ret.prefix \o <<"-">> \o ZeroPadded(ReturnedFor(ret.year), ret.padding)
     /\ (ret.prefix = <<"I", "N", "V", "-", "2", "0", "2", "6">> /\ ret.padding = 6) =>
          ret.id = <<"I", "N", "V", "-", "2", "0", "2", "6", "-",
                     "0", "0", "0", "0", "0">> \o String(ReturnedFor(ret.year))

\* C12 witness: the third sequential call with default options has returned
\* INV-2026-000003 after INV-2026-000001 and INV-2026-000002.
C12_Witness ==
  /\ JustReturned
  /\ \A c \in Callers : gen[c].pc = "idle"
  /\ ret.id = <<"I", "N", "V", "-", "2", "0", "2", "6", "-", "0", "0", "0", "0", "0", "3">>
  /\ \E e1, e2 \in BagToSet(issued) :
       /\ e1.id = <<"I", "N", "V", "-", "2", "0", "2", "6", "-", "0", "0", "0", "0", "0", "1">>
       /\ e2.id = <<"I", "N", "V", "-", "2", "0", "2", "6", "-", "0", "0", "0", "0", "0", "2">>

\* The part of an identifier after its prefix and the dash that follows it.
AfterPrefix(id, prefix) == SubSeq(id, Len(prefix) + 2, Len(id))

\* The identifier has, after its prefix, a character that is neither a digit
\* nor a dash: a token that no zero-padded sequence number can contain.
HasMarkerToken(id, prefix) ==
  \E i \in 1..Len(AfterPrefix(id, prefix)) :
    AfterPrefix(id, prefix)[i] \notin {Chars[d] : d \in 1..Len(Chars)} \cup {"-"}

\* C13: when the counter store is unavailable (the connection is not ready or
\* the update fails) the call returns an identifier that a marker token
\* distinguishes from every normal-mode identifier prefix-<zero-padded seq>.
C13_FallbackHasMarker ==
  (JustReturned /\ ret.mode = "fallback") => HasMarkerToken(ret.id, ret.prefix)

\* C14: across any sequence of calls, in normal mode, in fallback mode and
\* switching between them, no identifier is returned twice (so no fallback
\* identifier equals a normal one either).
C14_NeverReturnedTwice ==
  \A e \in BagToSet(issued) : TimesReturned(e.id) = 1

\* What the caller did wrong with its options: a padding that is given and is
\* not an integer from 1 to 12, or a prefix that is given and is neither a
\* string nor a function.
Misuse(options) ==
  \/ /\ options.padding.t # "undefined"
     /\ ~(/\ options.padding.t = "number" /\ options.padding.integer
          /\ options.padding.n \in MinPadding..MaxPadding)
  \/ options.prefix.t \notin {"undefined", "string", "function"}

\* The step is caller c entering generateInvoiceId: its call has thrown or
\* returned at once, or is now waiting for the update.
StartedBy(c) ==
  /\ ret = NoRet
  /\ gen[c].pc = "idle"
  /\ \/ gen'[c].pc = "awaiting"
     \/ ret' # NoRet /\ ret'.caller = c

\* C15: generateInvoiceId throws only for caller misuse, and throws for it
\* whether or not the store is available: a call throws exactly when its
\* options are misused, and a call that ends by throwing is never one whose
\* store operation failed.
C15_ThrowsOnlyForMisuse ==
  [][/\ \A c \in Callers :
          StartedBy(c) =>
            \A options \in Options :
              AllocStart(c, options) => ((ret' # NoRet /\ ret'.threw) <=> Misuse(options))
     /\ (ret = NoRet /\ ret' # NoRet /\ ret'.threw) =>
          /\ Misuse(ret'.options)
          /\ gen' = gen]_vars

\* C15 witness: a call with misused options has thrown while the connection
\* was down, and another call's update is still in flight.
C15_Witness ==
  /\ ret # NoRet /\ ret.threw
  /\ ~ret.connected
  /\ Misuse(ret.options)
  /\ \E c \in Callers : gen[c].pc = "awaiting"

\* ------------------------------------------------------------------ createInvoice claims
\* The requests that got as far as the loop or an answer.
Received == {c \in Callers : creq[c].pc # "idle"}

\* C16: createInvoice makes at most 3 allocate-and-save attempts; it tries
\* again only after a duplicate-key error (11000) and stops at the first
\* other error; when all 3 attempts fail with a duplicate key it answers with
\* an error and has persisted no invoice; it answers 201 only when an invoice
\* with the allocated identifier was persisted.
C16_BoundedRetry ==
  \A c \in Received :
    LET r == creq[c] IN
    /\ r.allocs <= 3 /\ r.saves <= 3 /\ Len(r.errs) <= 3
    /\ \A i \in 1..Len(r.errs) :
         \/ r.errs[i] = "11000"
         \/ i = Len(r.errs) /\ r.pc = "responded" /\ r.status = 500
    /\ r.allocs <= Len(r.errs) + 1
    /\ (Len(r.errs) = 3 /\ \A i \in 1..3 : r.errs[i] = "11000") =>
         /\ r.pc = "responded" /\ r.status = 500
         /\ ~\E inv \in invoices : inv.by = c
    /\ (r.pc = "responded" /\ r.status = 201) =>
         /\ \E inv \in invoices : inv.by = c /\ inv.invoiceId = r.id
         /\ \E e \in BagToSet(issued) : e.id = r.id

\* C16 witness: a request has answered 500 after three attempts that each
\* hit a duplicate key, while another request's invoice is persisted.
C16_Witness ==
  \E c \in Received :
    /\ creq[c].pc = "responded" /\ creq[c].status = 500
    /\ creq[c].errs = <<"11000", "11000", "11000">>
    /\ creq[c].allocs = 3 /\ creq[c].saves = 3
    /\ \E inv \in invoices : inv.by # c /\ inv.invoiceId = creq[c].id

\* ------------------------------------------------------------------ audit claims
\* The audit payloads handed to logAction so far, written or not.
AuditRecords ==
  {pendingAudit[i] : i \in 1..Len(pendingAudit)} \cup {auditLog[i] : i \in 1..Len(auditLog)}

\* The history action an audit event stands for.
ActionOfEvent(event) == IF event = "INVOICE_APPROVED" THEN "APPROVED" ELSE "REJECTED"

\* C17: an INVOICE_APPROVED or INVOICE_REJECTED audit record is written only
\* after the save of the invoice succeeded: each such record (and each one on
\* its way to the log) belongs to a history entry the database already holds,
\* and there are never more of them than persisted entries.
C17_AuditAfterSave ==
  /\ \A rec \in AuditRecords :
       rec.action \in {"INVOICE_APPROVED", "INVOICE_REJECTED"} =>
         \E i \in 1..Len(stored.approvalHistory) :
           /\ stored.approvalHistory[i].action = ActionOfEvent(rec.action)
           /\ stored.approvalHistory[i].by = rec.user.id
           /\ stored.approvalHistory[i].role = rec.user.role
           /\ stored.approvalHistory[i].comment = rec.metadata.comment
  /\ Len(pendingAudit) + Len(auditLog) <= Len(stored.approvalHistory)

\* C17 witness: the log holds the record of a manager's approval and of
\* finance's rejection, both persisted, while a request that failed left no
\* record.
C17_Witness ==
  /\ Len(auditLog) = 2
  /\ auditLog[1].action = "INVOICE_APPROVED" /\ auditLog[1].user.role = "manager"
  /\ auditLog[2].action = "INVOICE_REJECTED" /\ auditLog[2].user.role = "finance"
  /\ stored.status = "REJECTED"
  /\ Len(stored.approvalHistory) = 2
  /\ \E r \in Requests : req[r].pc = "failed"

\* C18: the AuditLog model never lets an existing audit record be modified or
\* deleted: saving a document that is not new, and every update and delete
\* query operation, is rejected, so each record stays in the collection as it
\* was inserted.
C18_AuditImmutable ==
  [][/\ Len(auditLog') >= Len(auditLog)
     /\ \A i \in 1..Len(auditLog) : auditLog'[i] = auditLog[i]
     /\ (auditOp' # auditOp) => auditOp'.rejected]_vars

\* ------------------------------------------------------------------ engine claims, continued
\* C19: the 'Unhandled workflow state' failure is unreachable: whatever the
\* invoice and whatever the role of the actor, a call that passes the role
\* check has manager or finance as its effective role, so no call ends in the
\* final throw.
C19_UnhandledUnreachable ==
  Called =>
    /\ call.err # "UnhandledState"
    /\ (call.err = "OK") =>
         effectiveRole(call.args.user, getExpectedRole(before)) \in {"manager", "finance"}

\* C19 witness: an admin has approved an invoice in the manager stage.
C19_Witness ==
  /\ Called /\ call.err = "OK"
  /\ call.args.user.role = "admin"
  /\ call.args.action = "APPROVE"
  /\ getExpectedRole(before) = "manager"
  /\ invoice.status = "PENDING"

\* What the next stage of an invoice is, by cases.
NextStage(inv) ==
  CASE inv.status = "PENDING" /\ inv.approvalHistory = <<>> -> "manager"
    [] /\ inv.status = "PENDING" /\ inv.approvalHistory # <<>>
       /\ inv.approvalHistory[Len(inv.approvalHistory)].action = "APPROVED"
       /\ inv.approvalHistory[Len(inv.approvalHistory)].role \in {"manager", "admin"}
       -> "finance"
    [] OTHER -> NULL

\* C20: getExpectedRole gives manager for a PENDING invoice with an empty
\* history, finance for a PENDING invoice whose last entry is APPROVED with a
\* manager-equivalent role (manager, or admin), and null in every other case;
\* it never gives employee or admin.
C20_ExpectedRole ==
  \A inv \in {invoice, before} :
    /\ getExpectedRole(inv) = NextStage(inv)
    /\ getExpectedRole(inv) \notin {"employee", "admin"}
    /\ (inv.status # "PENDING") => getExpectedRole(inv) = NULL
    /\ (inv.approvalHistory # <<>> /\ Last(inv.approvalHistory).action = "REJECTED") =>
         getExpectedRole(inv) = NULL
    /\ (inv.approvalHistory # <<>> /\ Last(inv.approvalHistory).role \in {"finance", "employee"}) =>
         getExpectedRole(inv) = NULL

\* C20 witness: a manager's call was refused because the invoice, PENDING with
\* a last entry APPROVED by an admin, expects finance.
C20_Witness ==
  /\ Called /\ call.err = "WrongStage" /\ call.detail = "FINANCE"
  /\ call.args.user.role = "manager"
  /\ invoice.status = "PENDING"
  /\ Last(invoice.approvalHistory).role = "admin"
  /\ getExpectedRole(invoice) = "finance"

\* ------------------------------------------------------------------ engine claims, part 3
\* C21: an admin may act at either stage in place of the expected role, and the
\* override never strands the workflow: a PENDING invoice always has a non-null
\* expected role (finance after an admin's approval at the first stage), an
\* admin's call on a PENDING invoice succeeds at either stage, and an admin's
\* approval at the finance stage finalises the invoice as APPROVED.
C21_AdminOverride ==
  /\ invoice.status = "PENDING" => getExpectedRole(invoice) \in {"manager", "finance"}
  /\ (WellFormed /\ ByRole("admin") /\ before.status = "PENDING") =>
       /\ call.err = "OK"
       /\ (call.args.action = "APPROVE" /\ getExpectedRole(before) = "manager") =>
            /\ invoice.status = "PENDING"
            /\ getExpectedRole(invoice) = "finance"
       /\ (call.args.action = "APPROVE" /\ getExpectedRole(before) = "finance") =>
            invoice.status = "APPROVED"

\* C21 witness: an admin has approved at the finance stage an invoice whose
\* first stage was approved by an admin too, and the invoice is APPROVED.
C21_Witness ==
  /\ WellFormed /\ ByRole("admin") /\ call.args.action = "APPROVE"
  /\ call.err = "OK"
  /\ Len(before.approvalHistory) = 1
  /\ before.approvalHistory[1].role = "admin"
  /\ getExpectedRole(before) = "finance"
  /\ invoice.status = "APPROVED"

\* ------------------------------------------------------------------ audit claims, part 2
\* A logAction call settles in this step.
LogSettles ==
  \/ Len(pendingAudit') < Len(pendingAudit)
  \/ logPromise' # logPromise

\* C22: logAction never throws or rejects: a call with a missing action or
\* resource and a call whose AuditLog write fails both resolve, and when a
\* call settles, by a write that succeeded or by one that failed, the stored
\* invoice and the outcome of every approve/reject request stay as they were.
C22_LogActionNeverRejects ==
  [][/\ logPromise' # "rejected"
     /\ LogSettles =>
          /\ logPromise' = "resolved"
          /\ stored' = stored
          /\ req' = req]_vars

\* C22 witness: a request was answered and its invoice update persisted, its
\* audit write failed (the log is empty, nothing is pending), and the promise
\* of logAction resolved.
C22_Witness ==
  /\ \E r \in Requests : req[r].pc = "done"
  /\ Len(stored.approvalHistory) = 1
  /\ pendingAudit = <<>>
  /\ auditLog = <<>>
  /\ logPromise = "resolved"

\* ------------------------------------------------------------------ engine claims, part 4
FailureKinds ==
  InvalidInputKinds \cup
    {"AlreadyFinalized", "ConflictOfInterest", "NoActionExpected", "WrongStage",
     "UnhandledState"}

\* C23: whenever processAction throws, for any failure kind, the invoice's
\* status, approvalHistory and currentApprover are exactly as they were before
\* the call.
C23_ThrowLeavesInvoice ==
  (Called /\ call.err # "OK") =>
    /\ call.err \in FailureKinds
    /\ invoice.status = before.status
    /\ invoice.approvalHistory = before.approvalHistory
    /\ invoice.currentApprover = before.currentApprover

\* C23 witness: a manager's call at the finance stage has failed, and the
\* history still holds the one entry it held before.
C23_Witness ==
  /\ WellFormed /\ call.err = "WrongStage"
  /\ ByRole("manager") /\ ~BySubmitter
  /\ before.status = "PENDING"
  /\ Len(before.approvalHistory) = 1
  /\ invoice.approvalHistory = before.approvalHistory
  /\ invoice.currentApprover = before.currentApprover

\* ------------------------------------------------------------------ counter claims
\* The counter value of a year; a year without a record counts as 0.
SeqOf(coll, y) == IF y \in DOMAIN coll THEN coll[y] ELSE 0

\* The kinds of step: a generateInvoiceId call returns in normal or in
\* fallback mode, a getCurrentSeq call or a setSeq call finishes.
NormalReturn == ret = NoRet /\ ret' # NoRet /\ ~ret'.threw /\ ret'.mode = "normal"
FallbackReturn == ret = NoRet /\ ret' # NoRet /\ ~ret'.threw /\ ret'.mode = "fallback"
GetSeqStep == seqOp = NoCall /\ seqOp' # NoCall /\ seqOp'.op = "getCurrentSeq"
SetSeqStep == seqOp = NoCall /\ seqOp' # NoCall /\ seqOp'.op = "setSeq"

\* What holds of every step whatever the mode: the record of a year is never
\* removed, a normal-mode return raises the counter of its year by exactly 1
\* and leaves the others, getCurrentSeq leaves every counter unchanged and
\* reports the value of the year asked for, and no step but one of setSeq
\* lowers a counter.
CounterSteps ==
  /\ DOMAIN counters \subseteq DOMAIN counters'
  /\ NormalReturn =>
       \A y \in SeqYears :
         SeqOf(counters', y) = SeqOf(counters, y) + (IF y = ret'.year THEN 1 ELSE 0)
  /\ GetSeqStep =>
       /\ counters' = counters
       /\ connected /\ seqOp'.year \in DOMAIN counters =>
            seqOp'.result = Num(counters[seqOp'.year])
  /\ ~SetSeqStep => \A y \in SeqYears : SeqOf(counters', y) >= SeqOf(counters, y)

\* C24 as stated: each year has one counter value that never decreases across
\* generateInvoiceId and getCurrentSeq calls: a normal-mode call raises it by
\* exactly 1, every fallback-mode call and getCurrentSeq leave it unchanged,
\* and only setSeq can lower it.
C24_Original ==
  [][/\ CounterSteps
     /\ FallbackReturn => counters' = counters]_vars

\* C24 amended: as stated, except that only a fallback-mode call made without
\* a database connection is certain to leave the counter unchanged; a call that
\* falls back because its update failed leaves it unchanged or raised by 1.
C24_CounterMonotonic ==
  [][/\ CounterSteps
     /\ FallbackReturn =>
          IF gen[ret'.caller].pc = "awaiting"
          THEN counters' \in {counters, incSeq(counters, ret'.year)}
          ELSE counters' = counters]_vars

\* C24 witness: setSeq has just lowered to 0 the counter of a year for which a
\* normal-mode identifier was issued before.
C24_Witness ==
  /\ seqOp # NoCall /\ seqOp.op = "setSeq" /\ ~seqOp.threw
  /\ seqOp.result = Num(0)
  /\ counters[seqOp.year] = 0
  /\ \E i \in BagToSet(issued) : i.mode = "normal" /\ i.year = seqOp.year
  /\ \E i \in BagToSet(issued) : i.mode = "fallback"

\* ------------------------------------------------------------------ createInvoice claims, part 2
\* C25: after the save of attempt k < 3 fails with a duplicate-key error,
\* attempt k+1 obtains a new identifier and succeeds when that identifier is
\* unused: the attempt that follows a duplicate fails only when its own
\* identifier is a duplicate too or its own save fails, never at the rename of
\* the uploaded file.
C25_RetryAfterDuplicate ==
  \A c \in Received :
    \A k \in 1..(Len(creq[c].errs) - 1) :
      creq[c].errs[k] = DUPLICATE_KEY =>
        creq[c].errs[k + 1] \in {DUPLICATE_KEY, "other"}

\* ------------------------------------------------------------------ request claims
\* Request r, in flight, is an updateInvoiceStatus request whose body has no
\* status or a status other than APPROVED and REJECTED.
InvalidStatusRequest(r) ==
  /\ req[r].pc \in {"saving", "writing"}
  /\ req[r].kind.handler = "updateInvoiceStatus"
  /\ req[r].kind.status \notin {"APPROVED", "REJECTED"}

\* C26: updateInvoiceStatus changes an invoice only when the requested status
\* is APPROVED or REJECTED: the save of a request whose status is missing or is
\* any other value never reaches the database, so the stored status and
\* approvalHistory stay as they were.
C26_StatusRequired ==
  [][\A r \in Requests :
       (InvalidStatusRequest(r) /\ req'[r].pc = "done") =>
         /\ stored'.status = stored.status
         /\ stored'.approvalHistory = stored.approvalHistory]_vars

\* The pre-save guard of request r decides in this step.
GuardDecides(r) == req[r].pc = "saving" /\ req'[r].pc # "saving"

\* C27: in both revisions of the Invoice model the pre-save guard accepts the
\* save that moves a stored PENDING invoice on after processAction, the save
\* that moves it to APPROVED or REJECTED included, and rejects every modifying
\* save of an invoice stored as APPROVED or REJECTED.
C27_GuardAcceptsFinalizingSave ==
  [][\A r \in Requests :
       GuardDecides(r) =>
         /\ stored.status = "PENDING" => req'[r].pc = "writing"
         /\ stored.status \in Final => req'[r].pc = "failed"]_vars

\* ------------------------------------------------------------------ engine claims, part 5
\* The entries of a history but the last.
ButLast(h) == SubSeq(h, 1, Len(h) - 1)

\* C28: in every state reachable from a new invoice by sequential
\* processAction calls the history has at most 2 entries; a PENDING invoice has
\* an empty history or one APPROVED entry with role manager or admin; an
\* APPROVED invoice has exactly two APPROVED entries, the second with role
\* finance or admin; a REJECTED invoice has 1 or 2 entries of which only the
\* last is REJECTED; and no entry has role employee.
C28_HistoryShape ==
  LET h == invoice.approvalHistory IN
  /\ Len(h) <= 2
  /\ invoice.status = "PENDING" =>
       \/ h = <<>>
       \/ Len(h) = 1 /\ h[1].action = "APPROVED" /\ h[1].role \in {"manager", "admin"}
  /\ invoice.status = "APPROVED" =>
       /\ Len(h) = 2
       /\ h[1].action = "APPROVED" /\ h[2].action = "APPROVED"
       /\ h[2].role \in {"finance", "admin"}
  /\ invoice.status = "REJECTED" =>
       /\ Len(h) \in {1, 2}
       /\ Last(h).action = "REJECTED"
       /\ \A i \in 1..Len(ButLast(h)) : h[i].action = "APPROVED"
  /\ \A i \in 1..Len(h) : h[i].role # "employee"

\* C28 witness: an invoice approved by an admin at the first stage and then
\* rejected by finance.
C28_Witness ==
  /\ invoice.status = "REJECTED"
  /\ Len(invoice.approvalHistory) = 2
  /\ invoice.approvalHistory[1].action = "APPROVED"
  /\ invoice.approvalHistory[1].role = "admin"
  /\ invoice.approvalHistory[2].action = "REJECTED"
  /\ invoice.approvalHistory[2].role = "finance"

\* C29: the two revisions of the workflow engine accept exactly the same
\* requests: for every reachable invoice state, actor and action, processAction
\* of workflowEngine.js and processAction of emailService.js either both fail
\* or both succeed with the same resulting status and the same next expected
\* role.
C29_RevisionsAgree ==
  Called =>
    /\ (call.err = "OK") <=> (call.rev2.err = "OK")
    /\ call.err = "OK" =>
         /\ call.rev2.status = invoice.status
         /\ call.rev2.next = getExpectedRole(invoice)

\* C30: createInvoice never overwrites or deletes the stored file of an invoice
\* that is already persisted: in every reachable state the file named by each
\* persisted invoice's filePath exists and is the file uploaded with that
\* invoice.
C30_StoredFileKept ==
  \A inv \in invoices :
    /\ inv.invoiceId \in DOMAIN files
    /\ files[inv.invoiceId] = inv.by

====
